---- MODULE Spec2Model ----
(***************************************************************************)
(* Booking conflict and availability engine of the hotel management app.   *)
(*                                                                         *)
(* The repository holds three implementations of the same engine, each     *)
(* with its own store:                                                     *)
(*   "A"  controllers/bookingController.js + roomController.js, with the   *)
(*        Mongoose models bookingSchema / roomSchema and routes/bookings.js*)
(*   "B"  exports.createBooking / exports.cancelBooking (second half of    *)
(*        controllers/hotelController.js), the Mongoose models             *)
(*        BookingSchema / RoomSchema (isAvailableForDates) and             *)
(*        routes/bookingRoutes.js                                          *)
(*   "S"  the PostgreSQL (Supabase) schema, its row level security         *)
(*        policies and triggers, and the browser client in                 *)
(*        public/js/realtime-bookings.js                                   *)
(* A deployment runs one of them: impl is chosen in Init and never changes.*)
(*                                                                         *)
(* Dates are whole days (integers); now is the current day.  A request     *)
(* handler is split at its database operations (each await): one action is *)
(* one database operation together with the local code that runs on its    *)
(* result, up to the moment the next database operation is issued.         *)
(*                                                                         *)
(* Specifications: Spec (the three engines, requests interleaved), SpecSeq *)
(* (A and B, requests one at a time), SpecAvail (S with the table          *)
(* room_availability), SpecDates (the overlap predicates on their own),    *)
(* SpecHttp and SpecHttpFair (the router, its middlewares, registration).  *)
(***************************************************************************)
EXTENDS Integers, Sequences, FiniteSets, TLC

VARIABLES
    impl,           \* "A", "B" or "S": the implementation deployed
    now,            \* current day
    rooms,          \* room id -> [exists, isAvailable]
    bookings,       \* booking id -> booking row/document (stored bookings)
    nextId,         \* next booking id to hand out
    req,            \* request slot -> the request being handled in it
    adminDisabled,  \* history: rooms an admin disabled and has not re-enabled
    du,             \* dateUtils call: function name, arguments and result
    hotels,         \* hotel id -> [exists, isActive]
    room_availability, \* (S) table room_availability: [followed, rows]
    server,         \* the HTTP server: "listening" or "closed"
    hreq,           \* HTTP slot -> the request travelling through the router
    accounts        \* e-mail -> role of the account, "none" if not registered

\* The variables of the HTTP layer (server.js, routes, middlewares).
httpVars == <<server, hreq, accounts>>

vars == <<impl, now, rooms, bookings, nextId, req, adminDisabled, du, hotels,
          room_availability, httpVars>>

(***************************************************************************)
(* Bounds and input sets                                                   *)
(***************************************************************************)
MaxNow == 2
MaxBookings == 2
MaxDay == 9

Procs == {1, 2}
Rooms == {"R"}
Hotels == {"H"}
\* Room.hotelId / rooms.hotel_id
hotelOf == [r \in Rooms |-> "H"]
Users == {"u1", "u2", "adm"}
\* The users who send createBooking requests (any user may cancel).
Customers == {"u1"}
\* Guest counts a request may carry: within the capacity of the room (2), and
\* above it for one of the ranges.
guestCountsFor(rg) == IF rg = <<1, 5>> THEN {1, 3} ELSE {1}

\* Ranges a request may carry, as <<start, end>>: the ranges of the booking
\* scenario (day 1 = Jan 1), a pair of disjoint ranges, an empty and an
\* inverted range.
Ranges == {<<1, 5>>, <<3, 6>>, <<5, 8>>, <<1, 3>>, <<3, 3>>, <<5, 1>>}

role == [u \in Users |-> IF u = "adm" THEN "admin" ELSE "user"]

\* Static room data (never changed by the operations modelled).
roomData == [r \in Rooms |-> [pricePerNight |-> 100, maxGuests |-> 2]]

(***************************************************************************)
(* Pure functions                                                          *)
(***************************************************************************)

\* Half-open interval intersection, the reference the claims are stated with.
HalfOpenOverlap(s1, e1, s2, e2) == s1 < e2 /\ s2 < e1

\* utils/dateUtils.js datesOverlap
datesOverlap(start1, end1, start2, end2) == start1 <= end2 /\ start2 <= end1

\* Math.abs
Abs(x) == IF x < 0 THEN -x ELSE x

\* Milliseconds in a day, as the controllers write it.
msPerDay == 1000 * 60 * 60 * 24

\* new Date(d).getTime() of a whole-day (ISO, UTC midnight) date, in
\* milliseconds from day 0.
getTime(d) == d * msPerDay

\* Math.ceil(a / b) for b > 0
MathCeil(a, b) == -((-a) \div b)

\* A price that counts the days of the range inclusively.
totalPriceInclusive(start, end, rate) == (end - start + 1) * rate

\* createBooking (A): nights and totalPrice
totalPriceA(start, end, rate) ==
    LET nights == MathCeil(getTime(end) - getTime(start), msPerDay)
    IN  nights * rate

\* exports.createBooking (B): diffTime, diffDays and totalPrice
totalPriceB(start, end, rate) ==
    LET diffTime == Abs(getTime(end) - getTime(start))
        diffDays == MathCeil(diffTime, msPerDay)
    IN  diffDays * rate

\* The query with its first clause written endDate >= start.
overlappingBookingMatchInclusive(b, roomId, start, end) ==
    /\ b.roomId = roomId
    /\ b.status \in {"confirmed"}
    /\ \/ (b.startDate <= start /\ b.endDate >= start)
       \/ (b.startDate < end /\ b.endDate >= end)
       \/ (b.startDate >= start /\ b.endDate <= end)

\* createBooking (A): the $or clauses of Booking.findOne
overlappingBookingMatch(b, roomId, start, end) ==
    /\ b.roomId = roomId
    /\ b.status \in {"confirmed"}
    /\ \/ (b.startDate <= start /\ b.endDate > start)
       \/ (b.startDate < end /\ b.endDate >= end)
       \/ (b.startDate >= start /\ b.endDate <= end)

\* A conflict query that matches no booking.
isAvailableForDatesMatchNone(b, roomId, start, end) == FALSE

\* RoomSchema.methods.isAvailableForDates: the $or clauses of Booking.find
isAvailableForDatesMatch(b, roomId, start, end) ==
    /\ b.roomId = roomId
    /\ b.status = "confirmed"
    /\ \/ (b.startDate <= end /\ b.endDate >= start)
       \/ (b.startDate >= start /\ b.startDate <= end)
       \/ (b.startDate <= start /\ b.endDate >= end)

\* RoomSchema.methods.isAvailableForDates: the bookings its Booking.find
\* returns (the method answers true when there are none).  The method tests
\* the room's isAvailable flag first, on the room document read before.
isAvailableForDatesFind(roomId, bks, start, end) ==
    {i \in DOMAIN bks : isAvailableForDatesMatch(bks[i], roomId, start, end)}

(***************************************************************************)
(* Requests                                                                *)
(***************************************************************************)
Idle ==
    [pc |-> "idle", op |-> "none", user |-> "none", room |-> "none",
     start |-> 0, end |-> 0, guests |-> 0, bid |-> 0, price |-> 0,
     result |-> "none"]

\* A finished request: only its response is kept.
Done(result) == [Idle EXCEPT !.pc = "done", !.result = result]

Free(p) == req[p].pc \in {"idle", "done"}

DuIdle == [fn |-> "none", a |-> 0, b |-> 0, c |-> 0, d |-> 0, out |-> FALSE]

HIdle == [pc |-> "idle", method |-> "none", path |-> << >>, token |-> "none",
          layer |-> 0, fn |-> 0, user |-> "none", status |-> 0, by |-> "none"]

\* The HTTP layer at rest: the state of the specifications that do not
\* send requests through the router.
HttpOff ==
    /\ server = "listening"
    /\ hreq = [p \in Procs |-> HIdle]
    /\ accounts = [e \in {"u1", "adm", "new"} |->
                      IF e = "adm" THEN "admin" ELSE IF e = "u1" THEN "user" ELSE "none"]

Init ==
    /\ impl \in {"A", "B", "S"}
    /\ now = 0
    /\ rooms = [r \in Rooms |-> [exists |-> TRUE, isAvailable |-> TRUE]]
    /\ bookings = << >>
    /\ nextId = 1
    /\ req = [p \in Procs |-> Idle]
    /\ adminDisabled = {}
    /\ du = DuIdle
    /\ hotels = [h \in Hotels |-> [exists |-> TRUE, isActive |-> TRUE]]
    /\ room_availability = [followed |-> FALSE, rows |-> << >>]
    /\ HttpOff

\* The clock advances by a day.
Tick ==
    /\ now < MaxNow
    /\ now' = now + 1
    /\ UNCHANGED <<impl, rooms, bookings, nextId, req, adminDisabled, du, hotels, room_availability, httpVars>>

(***************************************************************************)
(* Booking documents and their validation                                  *)
(***************************************************************************)

\* A document created with the status pending.
newBookingPending(user, roomId, start, end, guests, price) ==
    [userId |-> user, roomId |-> roomId, startDate |-> start, endDate |-> end,
     guests |-> guests, status |-> "pending", totalPrice |-> price,
     paymentStatus |-> "pending", bookingReference |-> 0]

\* The document Booking.create builds.  status and paymentStatus take the
\* schema defaults; bookingReference is 0 while the document has none.
newBooking(user, roomId, start, end, guests, price) ==
    [userId |-> user, roomId |-> roomId, startDate |-> start, endDate |-> end,
     guests |-> guests, status |-> "confirmed", totalPrice |-> price,
     paymentStatus |-> "pending", bookingReference |-> 0]

\* bookingSchema (A): the validators of the paths, run by the validation
\* step of save()
bookingSchemaValid(doc, today) ==
    /\ doc.startDate >= today
    /\ doc.endDate > doc.startDate
    /\ doc.totalPrice >= 0
    /\ doc.guests >= 1
    /\ doc.bookingReference # 0

\* bookingSchema.pre('save') (A): generate the booking reference.  Mongoose
\* runs the validation step before the pre('save') hooks of the schema.
bookingPreSave(doc, id) ==
    IF doc.bookingReference = 0 THEN [doc EXCEPT !.bookingReference = id] ELSE doc

\* BookingSchema without its pre('validate') hook.
BookingSchemaNoDateCheck(doc) == doc.guests >= 1

\* BookingSchema (B): pre('validate') and the validators of the paths
BookingSchemaValid(doc) ==
    /\ ~(doc.startDate >= doc.endDate)
    /\ doc.guests >= 1

\* routes/bookings.js createBookingSchema (A), checked by validateRequest
createBookingSchemaValid(start, end, guests, today) ==
    /\ start >= today
    /\ end > start
    /\ guests >= 1

(***************************************************************************)
(* createBooking                                                           *)
(***************************************************************************)

\* (A) validateRequest, the date checks and Room.findById with the checks on
\* its result; then Booking.findOne is issued.
createBookingA_findRoom(p, u, r, start, end, g) ==
    IF ~createBookingSchemaValid(start, end, g, now)
    THEN Done("ValidationError")
    ELSE IF start < now THEN Done("InvalidRange")
    ELSE IF end <= start THEN Done("InvalidRange")
    ELSE IF ~rooms[r].exists \/ ~rooms[r].isAvailable
    THEN Done("RoomNotFoundOrUnavailable")
    ELSE IF g > roomData[r].maxGuests THEN Done("CapacityExceeded")
    ELSE [Idle EXCEPT !.pc = "room", !.op = "create", !.user = u, !.room = r,
                      !.start = start, !.end = end, !.guests = g]

\* (B) Room.findById and the start of room.isAvailableForDates: the flag test
\* comes before the query on the bookings.
createBookingB_findRoom(p, u, r, start, end, g) ==
    IF ~rooms[r].exists THEN Done("NotFound")
    ELSE IF ~rooms[r].isAvailable THEN Done("RoomUnavailable")
    ELSE [Idle EXCEPT !.pc = "room", !.op = "create", !.user = u, !.room = r,
                      !.start = start, !.end = end, !.guests = g]

\* First database operation of createBooking: the read of the room.
CreateBooking(p, u, r, rg, g) ==
    /\ impl \in {"A", "B"}
    /\ Free(p)
    /\ req' = [req EXCEPT ![p] =
                  IF impl = "A" THEN createBookingA_findRoom(p, u, r, rg[1], rg[2], g)
                  ELSE createBookingB_findRoom(p, u, r, rg[1], rg[2], g)]
    /\ UNCHANGED <<impl, now, rooms, bookings, nextId, adminDisabled, du, hotels, room_availability, httpVars>>

\* (A) Booking.findOne on the overlapping bookings, the price, and the
\* validation step of Booking.create, which runs before the insert is sent.
createBookingA_findOne(q) ==
    LET overlappingBooking ==
            {i \in DOMAIN bookings :
                overlappingBookingMatch(bookings[i], q.room, q.start, q.end)}
        totalPrice == totalPriceA(q.start, q.end, roomData[q.room].pricePerNight)
        doc == newBooking(q.user, q.room, q.start, q.end, q.guests, totalPrice)
    IN  IF overlappingBooking # {} THEN Done("RoomUnavailable")
        ELSE IF ~bookingSchemaValid(doc, now) THEN Done("ValidationError")
        ELSE [q EXCEPT !.pc = "query", !.price = totalPrice]

\* exports.createBooking (B) without its guest count check.
createBookingB_findNoGuestCheck(q) ==
    LET conflicts == isAvailableForDatesFind(q.room, bookings, q.start, q.end)
        totalPrice == totalPriceB(q.start, q.end, roomData[q.room].pricePerNight)
        doc == newBooking(q.user, q.room, q.start, q.end, q.guests, totalPrice)
    IN  IF conflicts # {} THEN Done("RoomUnavailable")
        ELSE IF ~BookingSchemaValid(doc) THEN Done("ValidationError")
        ELSE [q EXCEPT !.pc = "query", !.price = totalPrice]

\* (B) the query of isAvailableForDates, the guest count check, the price,
\* and the validation step of Booking.create.
createBookingB_find(q) ==
    LET conflicts == isAvailableForDatesFind(q.room, bookings, q.start, q.end)
        totalPrice == totalPriceB(q.start, q.end, roomData[q.room].pricePerNight)
        doc == newBooking(q.user, q.room, q.start, q.end, q.guests, totalPrice)
    IN  IF conflicts # {} THEN Done("RoomUnavailable")
        ELSE IF q.guests > roomData[q.room].maxGuests
        THEN Done("CapacityExceeded")
        ELSE IF ~BookingSchemaValid(doc) THEN Done("ValidationError")
        ELSE [q EXCEPT !.pc = "query", !.price = totalPrice]

\* A createBooking that stores the booking first and runs its checks after.
CreateQueryAfterInsert(p) ==
    /\ req[p].pc = "room"
    /\ nextId <= MaxBookings
    /\ LET q == req[p]
           next == IF impl = "A" THEN createBookingA_findOne(q)
                   ELSE createBookingB_find(q)
       IN  /\ bookings' = Append(bookings,
                              newBooking(q.user, q.room, q.start, q.end, q.guests, 0))
           /\ req' = [req EXCEPT ![p] =
                         IF next.pc = "done" THEN next ELSE Done("Created")]
    /\ nextId' = nextId + 1
    /\ UNCHANGED <<impl, now, rooms, adminDisabled, du, hotels, room_availability, httpVars>>

\* Second database operation of createBooking: the conflict query.
CreateQuery(p) ==
    /\ req[p].pc = "room"
    /\ req' = [req EXCEPT ![p] =
                  IF impl = "A" THEN createBookingA_findOne(req[p])
                  ELSE createBookingB_find(req[p])]
    /\ UNCHANGED <<impl, now, rooms, bookings, nextId, adminDisabled, du, hotels, room_availability, httpVars>>

\* Third database operation of createBooking: the insert of Booking.create.
CreateInsert(p) ==
    /\ req[p].pc = "query"
    /\ nextId <= MaxBookings
    /\ LET q == req[p]
           doc == newBooking(q.user, q.room, q.start, q.end, q.guests, q.price)
           saved == IF impl = "A" THEN bookingPreSave(doc, nextId) ELSE doc
       IN  /\ bookings' = Append(bookings, saved)
           /\ req' = [req EXCEPT ![p] = Done("Created")]
    /\ nextId' = nextId + 1
    /\ UNCHANGED <<impl, now, rooms, adminDisabled, du, hotels, room_availability, httpVars>>

(***************************************************************************)
(* cancelBooking                                                           *)
(***************************************************************************)

\* (A) the checks of cancelBooking on the document findById returned
cancelBookingA_checks(u, bid) ==
    IF bid \notin DOMAIN bookings THEN "NotFound"
    ELSE IF bookings[bid].userId # u /\ role[u] # "admin" THEN "Forbidden"
    ELSE IF bookings[bid].status = "cancelled" THEN "AlreadyCancelled"
    ELSE IF bookings[bid].status = "completed" THEN "CannotCancelCompleted"
    ELSE IF bookings[bid].startDate <= now THEN "TooLateToCancel"
    ELSE "ok"

\* (B) the checks of exports.cancelBooking on the document findById returned
cancelBookingB_checks(u, bid) ==
    IF bid \notin DOMAIN bookings THEN "NotFound"
    ELSE IF bookings[bid].userId # u /\ role[u] # "admin" THEN "Forbidden"
    ELSE IF bookings[bid].status = "cancelled" THEN "AlreadyCancelled"
    ELSE IF bookings[bid].startDate < now THEN "TooLateToCancel"
    ELSE "ok"

\* First database operation of cancelBooking: Booking.findById, followed by
\* the checks; when they pass booking.save() is issued.
CancelBooking(p, u, bid) ==
    /\ impl \in {"A", "B"}
    /\ Free(p)
    /\ LET check == IF impl = "A" THEN cancelBookingA_checks(u, bid)
                    ELSE cancelBookingB_checks(u, bid)
       IN  req' = [req EXCEPT ![p] =
                      IF check = "ok"
                      THEN [Idle EXCEPT !.pc = "read", !.op = "cancel", !.bid = bid]
                      ELSE Done(check)]
    /\ UNCHANGED <<impl, now, rooms, bookings, nextId, adminDisabled, du, hotels, room_availability, httpVars>>

\* A save that also zeroes the price of the cancelled booking.
cancelBookingSaveZeroPrice(b) ==
    [b EXCEPT !.status = "cancelled", !.totalPrice = 0]

\* What booking.save() writes: the paths the handler modified.
cancelBookingSave(b) ==
    IF impl = "A"
    THEN [b EXCEPT !.status = "cancelled", !.paymentStatus = "refunded"]
    ELSE [b EXCEPT !.status = "cancelled"]

\* Second database operation of cancelBooking: booking.save().
CancelSave(p) ==
    /\ req[p].pc = "read"
    /\ bookings' = [bookings EXCEPT ![req[p].bid] = cancelBookingSave(@)]
    /\ req' = [req EXCEPT ![p] = Done("Cancelled")]
    /\ UNCHANGED <<impl, now, rooms, nextId, adminDisabled, du, hotels, room_availability, httpVars>>

(***************************************************************************)
(* Rooms                                                                   *)
(***************************************************************************)

\* checkRoomAvailability (B), first database operation: Room.findById, then
\* the flag test of room.isAvailableForDates, which issues Booking.find.
CheckRoomAvailability(p, r, rg) ==
    /\ impl = "B"
    /\ Free(p)
    /\ req' = [req EXCEPT ![p] =
                  IF ~rooms[r].exists THEN Done("NotFound")
                  ELSE IF ~rooms[r].isAvailable THEN Done("NotAvailable")
                  ELSE [Idle EXCEPT !.pc = "avail", !.op = "check", !.room = r,
                                    !.start = rg[1], !.end = rg[2]]]
    /\ UNCHANGED <<impl, now, rooms, bookings, nextId, adminDisabled, du, hotels, room_availability, httpVars>>

\* checkRoomAvailability (B), second database operation: the Booking.find
\* of room.isAvailableForDates, and the response.
CheckRoomAvailabilityFind(p) ==
    /\ req[p].pc = "avail"
    /\ req' = [req EXCEPT ![p] =
                  IF isAvailableForDatesFind(req[p].room, bookings,
                                             req[p].start, req[p].end) = {}
                  THEN Done("Available")
                  ELSE Done("NotAvailable")]
    /\ UNCHANGED <<impl, now, rooms, bookings, nextId, adminDisabled, du, hotels, room_availability, httpVars>>

\* updateRoom by an admin with isAvailable in the body: (A) room.save(),
\* (B) Room.findByIdAndUpdate, (S) an UPDATE of rooms, which the policy
\* "Admins can update rooms" admits.
UpdateRoom(r, flag) ==
    /\ rooms[r].exists
    /\ rooms' = [rooms EXCEPT ![r].isAvailable = flag]
    /\ adminDisabled' = IF flag THEN adminDisabled \ {r} ELSE adminDisabled \cup {r}
    /\ UNCHANGED <<impl, now, bookings, nextId, req, du, hotels, room_availability, httpVars>>

\* The bookings table after ON DELETE CASCADE from the rooms in gone: the
\* rows of those rooms are deleted, the others keep their ids.
cascadeBookings(bks, gone) ==
    [i \in {j \in DOMAIN bks : bks[j].roomId \notin gone} |-> bks[i]]

\* The rows of room_availability left when the rooms in gone are deleted
\* (room_id ... REFERENCES rooms(id) ON DELETE CASCADE).
cascadeAvailability(ra, gone) ==
    [ra EXCEPT !.rows = [k \in {j \in DOMAIN ra.rows : j[1] \notin gone} |-> ra.rows[k]]]

\* deleteRoom by an admin: (A) a soft delete, isAvailable = false;
\* (B) room.remove(), the document is gone and the bookings stay;
\* (S) DELETE FROM rooms, admitted by "Admins can delete rooms": the
\* bookings of the room go with it (room_id ... ON DELETE CASCADE).
DeleteRoom(r) ==
    /\ rooms[r].exists
    /\ rooms' = [rooms EXCEPT ![r] =
                    IF impl = "A" THEN [@ EXCEPT !.isAvailable = FALSE]
                    ELSE [exists |-> FALSE, isAvailable |-> FALSE]]
    /\ bookings' = IF impl = "S" THEN cascadeBookings(bookings, {r}) ELSE bookings
    /\ room_availability' = IF impl = "S"
                            THEN cascadeAvailability(room_availability, {r})
                            ELSE room_availability
    /\ adminDisabled' = adminDisabled \cup {r}
    /\ UNCHANGED <<impl, now, nextId, req, du, hotels, httpVars>>

\* deleteHotel by an admin: (A) a soft delete, hotel.isActive = false, the
\* rooms are not touched; (B) hotel.remove(), whose pre('remove') hook runs
\* Room.deleteMany on the hotel's rooms, the bookings stay; (S) DELETE FROM
\* hotels, admitted by "Admins can delete hotels": the rooms and the bookings
\* of the hotel go with it (hotel_id ... ON DELETE CASCADE).
DeleteHotel(h) ==
    /\ hotels[h].exists
    /\ LET gone == {r \in Rooms : hotelOf[r] = h}
       IN  IF impl = "A"
           THEN /\ hotels' = [hotels EXCEPT ![h].isActive = FALSE]
                /\ UNCHANGED <<rooms, bookings, adminDisabled, room_availability>>
           ELSE /\ hotels' = [hotels EXCEPT ![h] = [exists |-> FALSE, isActive |-> FALSE]]
                /\ rooms' = [r \in Rooms |->
                                IF r \in gone
                                THEN [exists |-> FALSE, isAvailable |-> FALSE]
                                ELSE rooms[r]]
                /\ bookings' = IF impl = "S" THEN cascadeBookings(bookings, gone)
                               ELSE bookings
                /\ room_availability' =
                       IF impl = "S" THEN cascadeAvailability(room_availability, gone)
                       ELSE room_availability
                /\ adminDisabled' = adminDisabled \cup gone
    /\ UNCHANGED <<impl, now, nextId, req, du, httpVars>>

(***************************************************************************)
(* (S) the bookings table, its triggers and the statements sent to it      *)
(***************************************************************************)

\* The row a trigger sees as OLD on INSERT (there is none).
NoRow == [newBooking("none", "none", 0, 0, 0, 0) EXCEPT !.status = "none"]

\* A trigger that flips the flag of the room on every change of a booking.
update_room_availability_flip(tgOp, id, old, new, bks, rms) ==
    LET row == IF tgOp = "DELETE" THEN old ELSE new
    IN  [rms EXCEPT ![row.roomId].isAvailable = ~@]

\* update_room_availability_on_booking_change: AFTER INSERT / UPDATE / DELETE
\* row trigger on bookings.  id is the row's id, bks the table after the
\* statement, rms the rooms table; the result is the rooms table.
update_room_availability_on_booking_change(tgOp, id, old, new, bks, rms) ==
    IF \/ (tgOp = "INSERT" /\ new.status = "confirmed")
       \/ (tgOp = "UPDATE" /\ new.status = "confirmed" /\ old.status # "confirmed")
    THEN [rms EXCEPT ![new.roomId].isAvailable = FALSE]
    ELSE IF \/ (tgOp = "UPDATE" /\ new.status = "cancelled" /\ old.status = "confirmed")
            \/ (tgOp = "DELETE" /\ old.status = "confirmed")
    THEN LET row == IF tgOp = "DELETE" THEN old ELSE new
         IN  IF ~ \E j \in DOMAIN bks :
                    /\ bks[j].roomId = row.roomId
                    /\ bks[j].status = "confirmed"
                    /\ j # id
                    /\ bks[j].startDate < row.endDate
                    /\ bks[j].endDate > row.startDate
             THEN [rms EXCEPT ![row.roomId].isAvailable = TRUE]
             ELSE rms
    ELSE rms

\* The dates check_in .. check_out - 1 of a booking row, as keys of
\* room_availability (UNIQUE(room_id, date)).
datesOf(row) == {<<row.roomId, d>> : d \in row.startDate .. (row.endDate - 1)}

\* update_room_availability: AFTER INSERT / UPDATE OF status / DELETE row
\* trigger on bookings.  id is the row's id, rows the table room_availability
\* (key <<room_id, date>> -> [is_available, booking_id], booking_id 0 for
\* NULL); the result is the table.
update_room_availability(tgOp, id, old, new, rows) ==
    IF \/ (tgOp = "INSERT" /\ new.status = "confirmed")
       \/ (tgOp = "UPDATE" /\ new.status = "confirmed" /\ old.status = "cancelled")
    THEN [k \in DOMAIN rows \cup datesOf(new) |->
             IF k \in datesOf(new)
             THEN [is_available |-> FALSE, booking_id |-> id]
             ELSE rows[k]]
    ELSE IF \/ (tgOp = "UPDATE" /\ new.status = "cancelled" /\ old.status = "confirmed")
            \/ tgOp = "DELETE"
    THEN LET row == IF tgOp = "DELETE" THEN old ELSE new
         IN  [k \in DOMAIN rows |->
                 IF k \in datesOf(row) /\ rows[k].booking_id = id
                 THEN [is_available |-> TRUE, booking_id |-> 0]
                 ELSE rows[k]]
    ELSE rows

\* The table room_availability after the triggers of one changed row.  No
\* statement of the engine reads the table, so the other tables evolve the
\* same whether it is followed or not: Spec leaves it out (followed = FALSE),
\* SpecAvail follows it.
after_booking_change(tgOp, id, old, new) ==
    IF room_availability.followed
    THEN [room_availability EXCEPT
             !.rows = update_room_availability(tgOp, id, old, new, @)]
    ELSE room_availability

\* UPDATE bookings SET status = s WHERE id = bid, with the row triggers.
updateStatus(bid, s) ==
    LET old == bookings[bid]
        new == [old EXCEPT !.status = s]
        bks == [bookings EXCEPT ![bid] = new]
    IN  /\ bookings' = bks
        /\ rooms' = update_room_availability_on_booking_change(
                        "UPDATE", bid, old, new, bks, rooms)
        /\ room_availability' = after_booking_change("UPDATE", bid, old, new)

\* The rows of bookings a user's UPDATE reaches: the policies "Users can
\* update their own bookings" and "Admins can update all bookings".
canUpdate(u, bid) ==
    /\ bid \in DOMAIN bookings
    /\ (bookings[bid].userId = u \/ role[u] = "admin")

\* INSERT INTO bookings by a user for themself (policy "Users can insert
\* their own bookings"), status left to its default; CHECK valid_dates.
InsertBooking(p, u, r, rg) ==
    /\ impl = "S"
    /\ Free(p)
    /\ IF rg[2] > rg[1] /\ rooms[r].exists /\ nextId <= MaxBookings
       THEN LET new == newBooking(u, r, rg[1], rg[2], 1,
                                  (rg[2] - rg[1]) * roomData[r].pricePerNight)
                bks == [i \in DOMAIN bookings \cup {nextId} |->
                           IF i = nextId THEN new ELSE bookings[i]]
            IN  /\ bookings' = bks
                /\ rooms' = update_room_availability_on_booking_change(
                                "INSERT", nextId, NoRow, new, bks, rooms)
                /\ room_availability' = after_booking_change("INSERT", nextId, NoRow, new)
                /\ nextId' = nextId + 1
                /\ req' = [req EXCEPT ![p] = Done("Created")]
       ELSE /\ req' = [req EXCEPT ![p] = Done("ConstraintViolation")]
            /\ UNCHANGED <<bookings, rooms, nextId, room_availability>>
    /\ UNCHANGED <<impl, now, adminDisabled, du, hotels, httpVars>>

\* cancel_booking(booking_id_param, user_id_param): every failed check raises
\* an exception, which the function's handler turns into FALSE.
cancel_booking_checks(u, bid) ==
    LET visible == canUpdate(u, bid)
        booking_exists == visible
        is_owner == visible /\ bookings[bid].userId = u
        is_future_booking == visible /\ bookings[bid].startDate > now
        is_already_cancelled == visible /\ bookings[bid].status = "cancelled"
    IN  booking_exists /\ is_owner /\ is_future_booking /\ ~is_already_cancelled

SqlCancelBooking(p, u, bid) ==
    /\ impl = "S"
    /\ Free(p)
    /\ IF cancel_booking_checks(u, bid)
       THEN /\ updateStatus(bid, "cancelled")
            /\ req' = [req EXCEPT ![p] = Done("TRUE")]
       ELSE /\ req' = [req EXCEPT ![p] = Done("FALSE")]
            /\ UNCHANGED <<bookings, rooms, room_availability>>
    /\ UNCHANGED <<impl, now, nextId, adminDisabled, du, hotels, httpVars>>

\* cancelBooking of public/js/realtime-bookings.js: the browser updates the
\* row itself; an update that reaches no row is not an error.
ClientCancelBooking(p, u, bid) ==
    /\ impl = "S"
    /\ Free(p)
    /\ IF canUpdate(u, bid)
       THEN updateStatus(bid, "cancelled")
       ELSE UNCHANGED <<bookings, rooms, room_availability>>
    /\ req' = [req EXCEPT ![p] = Done("Cancelled")]
    /\ UNCHANGED <<impl, now, nextId, adminDisabled, du, hotels, httpVars>>

\* Any other UPDATE of a booking's status the policies admit: the table's
\* CHECK allows the three statuses, the policies do not look at the old or
\* the new value.
UpdateBookingStatus(p, u, bid, s) ==
    /\ impl = "S"
    /\ Free(p)
    /\ canUpdate(u, bid)
    /\ s \in {"confirmed", "completed"}
    /\ updateStatus(bid, s)
    /\ req' = [req EXCEPT ![p] = Done("Updated")]
    /\ UNCHANGED <<impl, now, nextId, adminDisabled, du, hotels, httpVars>>

Next ==
    \/ Tick
    \/ \E p \in Procs, r \in Rooms, rg \in Ranges : CheckRoomAvailability(p, r, rg)
    \/ \E p \in Procs : CheckRoomAvailabilityFind(p)
    \/ \E r \in Rooms, flag \in BOOLEAN : UpdateRoom(r, flag)
    \/ \E r \in Rooms : DeleteRoom(r)
    \/ \E h \in Hotels : DeleteHotel(h)
    \/ \E p \in Procs, u \in Customers, r \in Rooms, rg \in Ranges : InsertBooking(p, u, r, rg)
    \/ \E p \in Procs, u \in Users, bid \in 1..MaxBookings : SqlCancelBooking(p, u, bid)
    \/ \E p \in Procs, u \in Users, bid \in 1..MaxBookings : ClientCancelBooking(p, u, bid)
    \/ \E p \in Procs, u \in Users, bid \in 1..MaxBookings, s \in {"confirmed", "completed"} :
          UpdateBookingStatus(p, u, bid, s)
    \/ \E p \in Procs, u \in Customers, r \in Rooms, rg \in Ranges :
       \E g \in guestCountsFor(rg) :
          CreateBooking(p, u, r, rg, g)
    \/ \E p \in Procs : CreateQuery(p)
    \/ \E p \in Procs : CreateInsert(p)
    \/ \E p \in Procs, u \in Users, bid \in 1..MaxBookings : CancelBooking(p, u, bid)
    \/ \E p \in Procs : CancelSave(p)

Spec == Init /\ [][Next]_vars

(***************************************************************************)
(* (S) with the table room_availability followed.                          *)
(***************************************************************************)
InitAvail ==
    /\ impl = "S"
    /\ now = 0
    /\ rooms = [r \in Rooms |-> [exists |-> TRUE, isAvailable |-> TRUE]]
    /\ bookings = << >>
    /\ nextId = 1
    /\ req = [p \in Procs |-> Idle]
    /\ adminDisabled = {}
    /\ du = DuIdle
    /\ hotels = [h \in Hotels |-> [exists |-> TRUE, isActive |-> TRUE]]
    /\ room_availability = [followed |-> TRUE, rows |-> << >>]
    /\ HttpOff

\* The statements that write bookings or room_availability.
NextAvail ==
    \/ \E r \in Rooms : DeleteRoom(r)
    \/ \E h \in Hotels : DeleteHotel(h)
    \/ \E p \in Procs, u \in Customers, r \in Rooms, rg \in Ranges : InsertBooking(p, u, r, rg)
    \/ \E p \in Procs, u \in Users, bid \in 1..MaxBookings : SqlCancelBooking(p, u, bid)
    \/ \E p \in Procs, u \in Users, bid \in 1..MaxBookings : ClientCancelBooking(p, u, bid)
    \/ \E p \in Procs, u \in Users, bid \in 1..MaxBookings, s \in {"confirmed", "completed"} :
          UpdateBookingStatus(p, u, bid, s)

SpecAvail == InitAvail /\ [][NextAvail]_vars

(***************************************************************************)
(* The handlers of (A) and (B) with the requests served one at a time: a   *)
(* request is taken only when no other request is between two of its       *)
(* database operations.                                                    *)
(***************************************************************************)
OneAtATime(p) == \A q \in Procs \ {p} : Free(q)

InitSeq == Init /\ impl \in {"A", "B"}

NextSeq ==
    \/ Tick
    \/ \E p \in Procs, r \in Rooms, rg \in Ranges :
          OneAtATime(p) /\ CheckRoomAvailability(p, r, rg)
    \/ \E p \in Procs : CheckRoomAvailabilityFind(p)
    \/ \E r \in Rooms, flag \in BOOLEAN : UpdateRoom(r, flag)
    \/ \E r \in Rooms : DeleteRoom(r)
    \/ \E h \in Hotels : DeleteHotel(h)
    \/ \E p \in Procs, u \in Customers, r \in Rooms, rg \in Ranges :
       \E g \in guestCountsFor(rg) :
          OneAtATime(p) /\ CreateBooking(p, u, r, rg, g)
    \/ \E p \in Procs : CreateQuery(p)
    \/ \E p \in Procs : CreateInsert(p)
    \/ \E p \in Procs, u \in Users, bid \in 1..MaxBookings :
          OneAtATime(p) /\ CancelBooking(p, u, bid)
    \/ \E p \in Procs : CancelSave(p)

SpecSeq == InitSeq /\ [][NextSeq]_vars

(***************************************************************************)
(* utils/dateUtils.js, called on its own                                   *)
(***************************************************************************)
Days == 0..MaxDay

InitDates ==
    /\ impl = "B"
    /\ now = 0
    /\ rooms = [r \in Rooms |-> [exists |-> TRUE, isAvailable |-> TRUE]]
    /\ bookings = << >>
    /\ nextId = 1
    /\ req = [p \in Procs |-> Idle]
    /\ adminDisabled = {}
    /\ hotels = [h \in Hotels |-> [exists |-> TRUE, isActive |-> TRUE]]
    /\ room_availability = [followed |-> FALSE, rows |-> << >>]
    /\ HttpOff
    /\ \E a \in Days, b \in Days, c \in Days, d \in Days :
          du = [DuIdle EXCEPT !.fn = "args", !.a = a, !.b = b, !.c = c, !.d = d]

\* The call datesOverlap(startDate1, endDate1, startDate2, endDate2) on the
\* arguments drawn in InitDates.
CallDatesOverlap ==
    /\ du.fn = "args"
    /\ du' = [du EXCEPT !.fn = "datesOverlap",
                        !.out = datesOverlap(du.a, du.b, du.c, du.d)]
    /\ UNCHANGED <<impl, now, rooms, bookings, nextId, req, adminDisabled, hotels, room_availability, httpVars>>

\* The conflict query of createBooking (A) for the candidate range
\* [du.c, du.d) of room "R", run on a confirmed booking [du.a, du.b) of
\* the same room.
CallOverlappingBookingMatch ==
    /\ du.fn = "args"
    /\ du' = [du EXCEPT !.fn = "overlappingBooking",
                        !.out = overlappingBookingMatch(
                                    newBooking("u1", "R", du.a, du.b, 1, 0),
                                    "R", du.c, du.d)]
    /\ UNCHANGED <<impl, now, rooms, bookings, nextId, req, adminDisabled, hotels,
                   room_availability, httpVars>>

NextDates == CallDatesOverlap \/ CallOverlappingBookingMatch

SpecDates == InitDates /\ [][NextDates]_vars

(***************************************************************************)
(* HTTP layer: server.js, the booking routers, their middlewares and the   *)
(* public registration                                                     *)
(***************************************************************************)

Emails == {"u1", "adm", "new"}

\* What a request carries in its Authorization header: nothing, a token that
\* does not verify, or a token signed for an account (which need not exist).
Tokens == {"none", "invalid"} \cup Emails

\* The requests sent to /api/bookings: method and path below the mount point.
\* "b1" stands for a well-formed ObjectId, "all" is not one.
HttpRequests ==
    {<<"POST", << >>>>, <<"GET", << >>>>, <<"GET", <<"all">>>>,
     <<"GET", <<"b1">>>>, <<"PUT", <<"b1", "cancel">>>>, <<"DELETE", <<"b1">>>>}

\* routes/bookingRoutes.js: the router's stack, in registration order.
bookingRoutes ==
    << [method |-> "USE",  path |-> << >>,             fns |-> <<"protect">>],
       [method |-> "POST", path |-> << >>,             fns |-> <<"createBooking">>],
       [method |-> "GET",  path |-> << >>,             fns |-> <<"getMyBookings">>],
       [method |-> "GET",  path |-> <<":id">>,         fns |-> <<"getBooking">>],
       [method |-> "PUT",  path |-> <<":id", "cancel">>, fns |-> <<"cancelBooking">>],
       [method |-> "USE",  path |-> << >>,             fns |-> <<"isAdmin">>],
       [method |-> "GET",  path |-> <<"all">>,         fns |-> <<"getAllBookings">>] >>

\* routes/bookings.js: the router's stack, in registration order.
bookings_js ==
    << [method |-> "POST", path |-> << >>,
        fns |-> <<"protect", "validateRequest", "createBooking">>],
       [method |-> "GET",  path |-> << >>,     fns |-> <<"protect", "getUserBookings">>],
       [method |-> "GET",  path |-> <<"all">>,
        fns |-> <<"protect", "isAdmin", "getAllBookings">>],
       [method |-> "GET",  path |-> <<":id">>, fns |-> <<"protect", "getBookingById">>],
       [method |-> "PUT",  path |-> <<":id", "cancel">>,
        fns |-> <<"protect", "cancelBooking">>] >>

routerStack == IF impl = "A" THEN bookings_js ELSE bookingRoutes

\* Express matches a route path segment by segment; a ":name" segment
\* matches any one segment.
pathMatches(pat, path) ==
    /\ Len(pat) = Len(path)
    /\ \A i \in 1..Len(pat) : pat[i] = ":id" \/ pat[i] = path[i]

\* router.use(fn) without a path matches every request; router.METHOD(path)
\* matches its method and path.
layerMatches(l, method, path) ==
    l.method = "USE" \/ (l.method = method /\ pathMatches(l.path, path))

\* The first layer at or after from that matches, Len + 1 if none does (the
\* request leaves the router).
nextLayer(stack, from, method, path) ==
    LET hits == {i \in from..Len(stack) : layerMatches(stack[i], method, path)}
    IN  IF hits = {} THEN Len(stack) + 1
        ELSE CHOOSE i \in hits : \A j \in hits : i <= j

\* A response has been sent: only the status and the function that sent it
\* are kept.
HDone(status, by) == [HIdle EXCEPT !.pc = "done", !.status = status, !.by = by]

HFree(p) == hreq[p].pc \in {"idle", "done"}

\* next(): the request moves to the next function of the route, or to the
\* next matching layer; past the last layer it reaches app.use('/api/*') of
\* server.js, which answers 404.
callNext(r) ==
    IF r.fn < Len(routerStack[r.layer].fns)
    THEN [r EXCEPT !.fn = r.fn + 1]
    ELSE LET l == nextLayer(routerStack, r.layer + 1, r.method, r.path)
         IN  IF l > Len(routerStack) THEN HDone(404, "notFound")
             ELSE [r EXCEPT !.layer = l, !.fn = 1]

\* jwt.verify succeeds and User.findById finds the account.
tokenOk(r) == r.token \in Emails /\ accounts[r.token] # "none"

\* protect of middlewares/auth.js: every refusal is answered 401.
protectAuth(r) ==
    IF tokenOk(r) THEN callNext([r EXCEPT !.user = r.token])
    ELSE HDone(401, "protect")

\* protect of the authMiddleware bookingRoutes.js requires: an async function
\* that sets res.status(401) and throws on every refusal.  Nothing awaits or
\* catches the promise Express 4 gets back from it: no response is sent and
\* the rejection is left to the process.
protectAuthMiddleware(r) ==
    IF tokenOk(r) THEN callNext([r EXCEPT !.user = r.token])
    ELSE [r EXCEPT !.pc = "rejected", !.status = 401]

protect(r) == IF impl = "A" THEN protectAuth(r) ELSE protectAuthMiddleware(r)

\* isAdmin: the middleware both routers require.
isAdmin(r) ==
    IF accounts[r.user] = "admin" THEN callNext(r) ELSE HDone(403, "isAdmin")

\* validateRequest(schema): a body the schema refuses makes it set status 400
\* and throw synchronously, which Express hands to errorHandler.
validateRequest(r, bodyOk) ==
    IF bodyOk THEN callNext(r) ELSE HDone(400, "errorHandler")

\* A controller: every one answers, itself or through next(error) and
\* errorHandler.  getBooking / getBookingById start with Booking.findById
\* (req.params.id), which fails with a CastError on an id that is not an
\* ObjectId; errorHandler answers that with 404.
controller(r) ==
    IF routerStack[r.layer].fns[r.fn] \in {"getBooking", "getBookingById"}
       /\ r.path[1] = "all"
    THEN HDone(404, "errorHandler")
    ELSE HDone(200, routerStack[r.layer].fns[r.fn])

\* A request reaches the router mounted at /api/bookings.
Receive(p, method, path, token) ==
    /\ server = "listening"
    /\ HFree(p)
    /\ LET l == nextLayer(routerStack, 1, method, path)
       IN  hreq' = [hreq EXCEPT ![p] =
                       IF l > Len(routerStack) THEN HDone(404, "notFound")
                       ELSE [HIdle EXCEPT !.pc = "run", !.method = method,
                                          !.path = path, !.token = token,
                                          !.layer = l, !.fn = 1]]
    /\ UNCHANGED <<impl, now, rooms, bookings, nextId, req, adminDisabled, du,
                   hotels, room_availability, server, accounts>>

\* The function the request stands at runs.
RunFn(p) ==
    /\ hreq[p].pc = "run"
    /\ LET r == hreq[p]
           f == routerStack[r.layer].fns[r.fn]
       IN  \E bodyOk \in BOOLEAN :
              hreq' = [hreq EXCEPT ![p] =
                          CASE f = "protect" -> protect(r)
                            [] f = "isAdmin" -> isAdmin(r)
                            [] f = "validateRequest" -> validateRequest(r, bodyOk)
                            [] OTHER -> controller(r)]
    /\ UNCHANGED <<impl, now, rooms, bookings, nextId, req, adminDisabled, du,
                   hotels, room_availability, server, accounts>>

\* process.on('unhandledRejection') of server.js: server.close() stops the
\* server from accepting requests (and the process exits once the open
\* connections end).  The request whose middleware rejected never gets a
\* response.
UnhandledRejection(p) ==
    /\ hreq[p].pc = "rejected"
    /\ server' = "closed"
    /\ hreq' = [hreq EXCEPT ![p].pc = "hung"]
    /\ UNCHANGED <<impl, now, rooms, bookings, nextId, req, adminDisabled, du,
                   hotels, room_availability, accounts>>

\* The roles registerSchema (routes/auth.js) and schemas.userRegister admit
\* in the body of POST /api/auth/register; "absent" is a body without role.
registerSchemaValid(bodyRole) == bodyRole \in {"absent", "user", "admin"}

\* register: public, no authentication.  The new account gets the role of
\* the request body, 'user' when the body has none.
Register(e, bodyRole) ==
    /\ server = "listening"
    /\ registerSchemaValid(bodyRole)
    /\ accounts' = IF accounts[e] # "none" THEN accounts
                   ELSE [accounts EXCEPT ![e] =
                            IF bodyRole = "absent" THEN "user" ELSE bodyRole]
    /\ UNCHANGED <<impl, now, rooms, bookings, nextId, req, adminDisabled, du,
                   hotels, room_availability, server, hreq>>

InitHttp ==
    /\ impl \in {"A", "B"}
    /\ now = 0
    /\ rooms = [r \in Rooms |-> [exists |-> TRUE, isAvailable |-> TRUE]]
    /\ bookings = << >>
    /\ nextId = 1
    /\ req = [p \in Procs |-> Idle]
    /\ adminDisabled = {}
    /\ du = DuIdle
    /\ hotels = [h \in Hotels |-> [exists |-> TRUE, isActive |-> TRUE]]
    /\ room_availability = [followed |-> FALSE, rows |-> << >>]
    /\ HttpOff

NextHttp ==
    \/ \E p \in Procs, mp \in HttpRequests, t \in Tokens : Receive(p, mp[1], mp[2], t)
    \/ \E p \in Procs : RunFn(p)
    \/ \E p \in Procs : UnhandledRejection(p)
    \/ \E e \in Emails, bodyRole \in {"absent", "user", "admin", "owner"} :
          Register(e, bodyRole)

SpecHttp == InitHttp /\ [][NextHttp]_vars

\* Node's event loop runs every callback that is ready: a request in the
\* router is not left waiting for ever, and a rejection nobody handled is
\* reported to the process.
SpecHttpFair ==
    /\ SpecHttp
    /\ \A p \in Procs : WF_vars(RunFn(p)) /\ WF_vars(UnhandledRejection(p))

(***************************************************************************)
(* Properties                                                              *)
(***************************************************************************)

\* The confirmed bookings of a room in a bookings store.
confirmedOn(r, bks) ==
    {i \in DOMAIN bks : bks[i].roomId = r /\ bks[i].status = "confirmed"}

\* The ranges of the confirmed bookings of a room.
confirmedRanges(r, bks) ==
    {<<bks[i].startDate, bks[i].endDate>> : i \in confirmedOn(r, bks)}

\* A room has a confirmed booking whose range covers day t or a later day.
liveFrom(r, bks, t) == \E i \in confirmedOn(r, bks) : bks[i].endDate > t

\* C1: under the createBooking handlers (A, B), whatever the interleaving of
\* concurrent requests, no two confirmed bookings of a room have overlapping
\* (half-open) date ranges.
C1_NoDoubleBooking ==
    impl \in {"A", "B"} =>
        \A r \in Rooms : \A i, j \in confirmedOn(r, bookings) :
            i # j => ~HalfOpenOverlap(bookings[i].startDate, bookings[i].endDate,
                                      bookings[j].startDate, bookings[j].endDate)

\* C2: room R at 100 a night with one confirmed booking [1, 5): the conflict
\* check of a create for [3, 6) answers RoomUnavailable and stores nothing;
\* the conflict check of a create for [5, 8) passes with price 300, and its
\* insert stores totalPrice 300.
C2_Scenario ==
    [][\A p \in Procs :
        /\ ( /\ req[p].pc = "room" /\ req'[p] # req[p]
             /\ req[p].room = "R" /\ req[p].guests = 1
             /\ confirmedRanges("R", bookings) = {<<1, 5>>} )
           => /\ (<<req[p].start, req[p].end>> = <<3, 6>>
                    => req'[p].result = "RoomUnavailable" /\ bookings' = bookings)
              /\ (<<req[p].start, req[p].end>> = <<5, 8>>
                    => req'[p].pc = "query" /\ req'[p].price = 300)
        /\ ( /\ req[p].pc = "query" /\ req'[p] # req[p]
             /\ <<req[p].start, req[p].end>> = <<5, 8>> )
           => bookings'[nextId].totalPrice = 300
      ]_vars

\* C3: for ranges with end > start, datesOverlap answers true exactly when
\* start1 < end2 and start2 < end1 (ranges that only touch do not overlap).
C3_DatesOverlapHalfOpen ==
    (du.fn = "datesOverlap" /\ du.b > du.a /\ du.d > du.c)
        => (du.out <=> HalfOpenOverlap(du.a, du.b, du.c, du.d))

\* C4: room.isAvailableForDates (as checkRoomAvailability runs it) answers
\* false when the room's flag is false, and otherwise answers false exactly
\* when a confirmed booking of the room overlaps the candidate range under
\* half-open semantics; it changes neither the bookings nor the rooms.
C4_IsAvailableForDates ==
    [][\A p \in Procs :
        /\ \A r \in Rooms, rg \in Ranges :
              (CheckRoomAvailability(p, r, rg) /\ rooms[r].exists /\ ~rooms[r].isAvailable)
                => req'[p].result = "NotAvailable"
        /\ (req[p].pc = "avail" /\ req'[p] # req[p] /\ req[p].end > req[p].start)
              => /\ (req'[p].result = "NotAvailable")
                      <=> \E i \in confirmedOn(req[p].room, bookings) :
                             HalfOpenOverlap(bookings[i].startDate, bookings[i].endDate,
                                             req[p].start, req[p].end)
                 /\ bookings' = bookings /\ rooms' = rooms
      ]_vars

\* C5: a booking goes from confirmed to cancelled only at a time strictly
\* before its start date.
C5_CancelOnlyBeforeStart ==
    [][\A i \in DOMAIN bookings :
        ( /\ bookings[i].status = "confirmed"
          /\ i \in DOMAIN bookings' /\ bookings'[i].status = "cancelled" )
          => bookings[i].startDate > now
      ]_vars

\* A step stores a new booking, cancels a confirmed one or removes one.
createdCancelledOrDeleted ==
    \/ \E i \in DOMAIN bookings' : i \notin DOMAIN bookings
    \/ \E i \in DOMAIN bookings :
          \/ i \notin DOMAIN bookings'
          \/ (bookings[i].status = "confirmed" /\ bookings'[i].status = "cancelled")

\* C6: after every create, cancel or delete of a booking, the room's
\* isAvailable flag is false exactly when the room has a confirmed booking
\* covering now or a later day.
C6_FlagTracksLiveBookings ==
    [][createdCancelledOrDeleted =>
         \A r \in Rooms : rooms'[r].exists =>
             (rooms'[r].isAvailable <=> ~liveFrom(r, bookings', now))
      ]_vars

\* C7: a step that cancels (or deletes) a confirmed booking of a room does
\* not turn the room's flag to true while another confirmed booking of the
\* room covers now or a later day.
C7_CancelKeepsRoomTaken ==
    [][\A i \in DOMAIN bookings :
        ( /\ bookings[i].status = "confirmed"
          /\ (i \notin DOMAIN bookings' \/ bookings'[i].status = "cancelled")
          /\ liveFrom(bookings[i].roomId, bookings', now) )
          => ~( ~rooms[bookings[i].roomId].isAvailable
                /\ rooms'[bookings[i].roomId].isAvailable )
      ]_vars

\* C8: while a room is disabled by an admin (and not re-enabled by one), its
\* flag stays false whatever happens to its bookings, and every createBooking
\* request that arrives for it fails.
C8_DisabledRoomStaysDisabled ==
    [][\A r \in adminDisabled :
        /\ r \in adminDisabled' => ~rooms'[r].isAvailable
        /\ \A p \in Procs, u \in Customers, rg \in Ranges : \A g \in guestCountsFor(rg) :
              CreateBooking(p, u, r, rg, g) => req'[p].pc = "done"
      ]_vars

\* C9: of the cancel requests for one booking at most one answers success:
\* a cancel answers success only if its write found the booking confirmed.
C9_OneCancelSucceeds ==
    [][\A p \in Procs :
        (req[p].pc = "read" /\ req'[p].result = "Cancelled")
          => bookings[req[p].bid].status = "confirmed"
      ]_vars

\* C10: a booking that is cancelled or completed keeps that status as long
\* as it is stored.
C10_TerminalStatus ==
    [][\A i \in DOMAIN bookings :
        bookings[i].status \in {"cancelled", "completed"}
          => (i \in DOMAIN bookings' => bookings'[i].status = bookings[i].status)
      ]_vars

\* C11: a createBooking request that arrives with a start date earlier than
\* now is answered with an error by the step that receives it (the date
\* checks need only the request body and the clock), so it stores nothing.
C11_PastStartRejected ==
    [][\A p \in Procs, u \in Customers, r \in Rooms, rg \in Ranges :
        \A g \in guestCountsFor(rg) :
            (CreateBooking(p, u, r, rg, g) /\ rg[1] < now) => req'[p].pc = "done"
      ]_vars

\* The create request in a slot has an empty or inverted range.
emptyRange(q) == q.op = "create" /\ q.end <= q.start

C14_TotalPrice ==
    [][(impl \in {"A", "B"}) =>
        /\ \A i \in DOMAIN bookings' \ DOMAIN bookings :
              bookings'[i].totalPrice =
                  (bookings'[i].endDate - bookings'[i].startDate)
                      * roomData[bookings'[i].roomId].pricePerNight
        /\ \A p \in Procs :
              (req[p].pc = "room" /\ req'[p].pc = "query")
                => req'[p].price = (req[p].end - req[p].start)
                                       * roomData[req[p].room].pricePerNight
        /\ totalPriceA(1, 4, 100) = 300
        /\ totalPriceB(1, 4, 100) = 300
      ]_vars

\* A booking of three nights is stored with its price.
C14_Witness ==
    /\ impl = "B"
    /\ \E i \in DOMAIN bookings :
          bookings[i].endDate - bookings[i].startDate = 3 /\ bookings[i].totalPrice = 300

\* C15: under the createBooking handlers (A, B), a step that stores
\* bookings stores exactly one, with status confirmed, leaves the bookings
\* stored before as they were and answers the create with success; the
\* insert step of a createBooking request stores one booking.
C15_CreatedConfirmed ==
    [][(impl \in {"A", "B"}) =>
        /\ Len(bookings') # Len(bookings)
            => /\ Len(bookings') = Len(bookings) + 1
               /\ bookings'[Len(bookings')].status = "confirmed"
               /\ SubSeq(bookings', 1, Len(bookings)) = bookings
               /\ \E p \in Procs : req'[p].result = "Created"
        /\ \A p \in Procs :
              (req[p].pc = "query" /\ req'[p] # req[p])
                => req'[p].result = "Created" /\ Len(bookings') = Len(bookings) + 1
      ]_vars

\* Two creates succeeded and their bookings are stored as confirmed.
C15_Witness ==
    /\ impl = "B"
    /\ Len(bookings) = 2
    /\ \A i \in DOMAIN bookings : bookings[i].status = "confirmed"
    /\ \E p \in Procs : req[p].result = "Created"

\* The requester of a cancel is the owner of the booking or an admin.
ownerOrAdmin(u, bid) == bookings[bid].userId = u \/ role[u] = "admin"

\* C16: a cancel request (cancelBooking of A and B, cancel_booking of S) for
\* a stored booking from a user who is neither its owner nor an admin is
\* refused (Forbidden; FALSE from cancel_booking) and changes no booking;
\* a cancel request from an admin for a confirmed booking of another user
\* that starts after now is accepted.
C16_OwnerOrAdminCancels ==
    [][\A p \in Procs, u \in Users, bid \in DOMAIN bookings :
        /\ (~ownerOrAdmin(u, bid) /\ CancelBooking(p, u, bid))
              => req'[p].result = "Forbidden"
        /\ (~ownerOrAdmin(u, bid) /\ SqlCancelBooking(p, u, bid))
              => req'[p].result = "FALSE" /\ bookings' = bookings
        /\ ( /\ role[u] = "admin" /\ bookings[bid].userId # u
             /\ bookings[bid].status = "confirmed" /\ bookings[bid].startDate > now )
              => /\ CancelBooking(p, u, bid) => req'[p].pc = "read"
                 /\ SqlCancelBooking(p, u, bid) => req'[p].result = "TRUE"
      ]_vars

\* The error kinds a failed cancel answers with.
cancelErrorKinds ==
    {"NotFound", "Forbidden", "AlreadyCancelled", "CannotCancelCompleted",
     "TooLateToCancel"}

\* C17: a cancel request that is refused (cancelBooking of A and B), or that
\* cancels nothing (cancel_booking and the browser's cancelBooking of S),
\* answers with the error kind of the precondition that failed.
C17_CancelErrorsSurfaced ==
    [][\A p \in Procs, u \in Users, bid \in 1..MaxBookings :
        /\ (CancelBooking(p, u, bid) /\ req'[p].pc = "done")
              => req'[p].result \in cancelErrorKinds
        /\ (SqlCancelBooking(p, u, bid) /\ bookings' = bookings)
              => req'[p].result \in cancelErrorKinds
        /\ (ClientCancelBooking(p, u, bid) /\ bookings' = bookings)
              => req'[p].result \in cancelErrorKinds
      ]_vars

C19_BookingsNeverDeleted ==
    [][\A i \in DOMAIN bookings : i \in DOMAIN bookings']_vars

\* A hotel that deleteHotel has deleted (removed, or marked inactive).
hotelDeleted(h) == ~hotels[h].exists \/ ~hotels[h].isActive

\* C20: after deleteHotel no room of the hotel is available, and a
\* createBooking request for a room of a deleted hotel is refused by the step
\* that reads the room.
C20_HotelDeleteCascades ==
    [][\A h \in Hotels :
        /\ DeleteHotel(h) => \A r \in Rooms : hotelOf[r] = h => ~rooms'[r].isAvailable
        /\ hotelDeleted(h)
              => \A p \in Procs, u \in Customers, r \in Rooms, rg \in Ranges :
                 \A g \in guestCountsFor(rg) :
                    (hotelOf[r] = h /\ CreateBooking(p, u, r, rg, g))
                      => req'[p].pc = "done"
      ]_vars

\* C21: every request sent to a protected booking route is eventually
\* answered, and the server stays able to take later requests: a request
\* without a token, with a token that does not verify or with the token of
\* an account that does not exist is answered 401.
C21_ProtectedRequestsAnswered ==
    /\ [](server = "listening")
    /\ \A p \in Procs : (hreq[p].pc = "run") ~> (hreq[p].pc = "done")

\* C22: GET /api/bookings/all is never handed to the "/:id" route; sent by
\* an authenticated admin it is answered by getAllBookings, sent by anyone
\* else it is answered by no controller.
C22_AllRouteReachesGetAllBookings ==
    [][\A p \in Procs :
          (/\ hreq[p].pc = "run"
           /\ hreq[p].method = "GET"
           /\ hreq[p].path = <<"all">>)
          => /\ routerStack[hreq[p].layer].path # <<":id">>
             /\ hreq'[p].pc = "done" =>
                   IF tokenOk(hreq[p]) /\ accounts[hreq[p].token] = "admin"
                   THEN hreq'[p].by = "getAllBookings"
                   ELSE hreq'[p].status \in {401, 403}]_vars

\* C23: for ranges with end > start, the conflict query of createBooking
\* matches a confirmed booking of the room exactly when the booking starts
\* before the candidate ends and the candidate starts before the booking
\* ends; ranges that only touch are not matched.
C23_ConflictQueryHalfOpen ==
    (du.fn = "overlappingBooking" /\ du.b > du.a /\ du.d > du.c)
        => (du.out <=> HalfOpenOverlap(du.a, du.b, du.c, du.d))

\* The query has run on a booking that ends the day the candidate starts,
\* and did not match it.
C23_Witness ==
    /\ du.fn = "overlappingBooking"
    /\ du.b > du.a /\ du.d > du.c
    /\ du.b = du.c
    /\ ~du.out

\* C24: when the create and cancel requests are served one at a time, no two
\* confirmed bookings of a room ever have overlapping (half-open) ranges.
C24_SequentialNoDoubleBooking ==
    \A r \in Rooms : \A i \in confirmedOn(r, bookings) :
        \A j \in confirmedOn(r, bookings) \ {i} :
            \/ bookings[i].endDate <= bookings[j].startDate
            \/ bookings[j].endDate <= bookings[i].startDate

\* Two confirmed bookings of one room are stored, the second created after
\* the first.
C24_Witness ==
    \E r \in Rooms : Cardinality(confirmedOn(r, bookings)) = 2

\* Room r has a cancelled booking with the range [start, end).
cancelledWith(r, start, end) ==
    \E i \in DOMAIN bookings :
        /\ bookings[i].roomId = r
        /\ bookings[i].status = "cancelled"
        /\ bookings[i].startDate = start
        /\ bookings[i].endDate = end

\* C25: a cancelled booking no longer counts: the conflict check of a later
\* create for the range of a cancelled booking of the room (dates and guest
\* count valid) passes when no confirmed booking of the room overlaps that
\* range under half-open semantics.
C25_CancelledRangeCanBeRebooked ==
    [][(impl \in {"A", "B"}) =>
        \A p \in Procs :
            (/\ req[p].pc = "room"
             /\ req'[p] # req[p]
             /\ cancelledWith(req[p].room, req[p].start, req[p].end)
             /\ req[p].start >= now
             /\ req[p].end > req[p].start
             /\ req[p].guests <= roomData[req[p].room].maxGuests
             /\ \A i \in confirmedOn(req[p].room, bookings) :
                    ~HalfOpenOverlap(bookings[i].startDate, bookings[i].endDate,
                                     req[p].start, req[p].end))
            => req'[p].pc = "query"]_vars

\* C26: the save of a successful cancel (cancelBooking of A and B) sets the
\* status of the targeted booking to cancelled and may set its payment
\* status; the booking's range, room, user, guest count, price and
\* reference, and every other booking, stay as they were.
C26_CancelFrame ==
    [][(impl \in {"A", "B"}) =>
        \A p \in Procs :
            (req[p].pc = "read" /\ req'[p] # req[p]) =>
                LET bid == req[p].bid
                IN  /\ DOMAIN bookings' = DOMAIN bookings
                    /\ \A i \in DOMAIN bookings \ {bid} : bookings'[i] = bookings[i]
                    /\ bookings'[bid].status = "cancelled"
                    /\ bookings'[bid] =
                          [bookings[bid] EXCEPT
                              !.status = "cancelled",
                              !.paymentStatus = bookings'[bid].paymentStatus]]_vars

\* A cancel has succeeded while another booking is stored.
C26_Witness ==
    /\ impl \in {"A", "B"}
    /\ \E p \in Procs : req[p].result = "Cancelled"
    /\ \E i, j \in DOMAIN bookings :
          i # j /\ bookings[i].status = "cancelled" /\ bookings[j].status = "confirmed"

\* Day d of room r is marked unavailable in room_availability.
markedUnavailable(r, d) ==
    /\ <<r, d>> \in DOMAIN room_availability.rows
    /\ ~room_availability.rows[<<r, d>>].is_available

\* A confirmed booking of room r covers day d.
covered(r, d) ==
    \E i \in confirmedOn(r, bookings) :
        bookings[i].startDate <= d /\ d < bookings[i].endDate

\* C27: every day of a room that a confirmed booking covers is marked
\* unavailable in room_availability, also after one of two confirmed
\* bookings covering the day has been cancelled or deleted.
C27_CoveredDatesUnavailable ==
    \A r \in Rooms, d \in Days :
        (rooms[r].exists /\ covered(r, d)) => markedUnavailable(r, d)

\* C28: a createBooking request (A) that has passed the checks on its dates,
\* its room and its guest count, and whose conflict query finds no booking,
\* is not refused for a missing bookingReference: it goes on to store the
\* booking; and every stored booking has a bookingReference.
C28_ReferenceGeneratedBeforeValidation ==
    [][(impl = "A") =>
        /\ \A p \in Procs :
              (/\ req[p].pc = "room"
               /\ req'[p] # req[p]
               /\ \A i \in DOMAIN bookings :
                      ~overlappingBookingMatch(bookings[i], req[p].room,
                                               req[p].start, req[p].end))
              => req'[p].pc = "query"
        /\ \A i \in DOMAIN bookings' : bookings'[i].bookingReference # 0]_vars

\* The answers of a create or cancel request (A, B) that was refused.
failedResults ==
    {"ValidationError", "InvalidRange", "RoomNotFoundOrUnavailable",
     "CapacityExceeded", "RoomUnavailable", "NotFound", "Forbidden",
     "AlreadyCancelled", "CannotCancelCompleted", "TooLateToCancel"}

\* C29: a step in which a create or cancel request (A, B) is refused leaves
\* the stored bookings, with their statuses, and the rooms, with their
\* isAvailable flags, exactly as they were.
C29_FailedRequestsChangeNothing ==
    [][(impl \in {"A", "B"}) =>
        \A p \in Procs :
            (/\ req'[p] # req[p]
             /\ req'[p].pc = "done"
             /\ req'[p].result \in failedResults)
            => bookings' = bookings /\ rooms' = rooms]_vars

\* With bookings stored, a create has been refused for a conflict and a
\* cancel has been refused.
C29_Witness ==
    /\ impl \in {"A", "B"}
    /\ bookings # << >>
    /\ \E p, q \in Procs :
          /\ req[p].result = "RoomUnavailable"
          /\ req[q].result \in {"AlreadyCancelled", "Forbidden", "TooLateToCancel"}

\* C30: no public request makes its caller an admin: an account that is not
\* an admin is not an admin after a register request either (no step of the
\* public routes grants the admin role).
C30_NoSelfMadeAdmin ==
    [][\A e \in Emails : accounts[e] # "admin" => accounts'[e] # "admin"]_vars
====
